---------------------------- MODULE Spec2Model ----------------------------
(***************************************************************************)
(* A model of the retirement simulator (katcherw/retirement-simulator).    *)
(*                                                                         *)
(* Representation choices, used throughout:                                *)
(*  - Money is an integer number of currency units.  The program computes  *)
(*    in f32; every division of the program is modelled by Div, the floor  *)
(*    of the exact quotient (fixed point, one unit of resolution).         *)
(*  - Percentages (returns, allocations, tax rates) are integers.          *)
(*  - A date is an integer number of months.  The program's dates are      *)
(*    chrono::NaiveDate values that the engine advances one month at a     *)
(*    time, so all dates the engine compares lie one month apart.          *)
(*  - The value an f32 holds after f32::MAX is assigned to it is F32_MAX.  *)
(***************************************************************************)
EXTENDS Integers, Sequences, FiniteSets, TLC

(***************************************************************************)
(* Bounds of the model                                                     *)
(***************************************************************************)
\* number of yearly records of the historical dataset (returns.csv)
NumRecords == 3
\* number of Monte Carlo scenarios the model runs (monte_carlo.rs 56 runs 1000)
MaxMCScenarios == 2
\* largest claiming age tried on the social-security interpolation
MaxClaimAge == 73
\* calls a caller of the engine makes after a call reported 'finished'
MaxCallsAfterFinished == 2

(***************************************************************************)
(* Program constants                                                       *)
(***************************************************************************)
\* f32::MAX, scaled down to the model's integers
F32_MAX == 1000000000
\* chrono::Utc::now(): the month a scenario starts in
Today == 24000
\* chrono's NaiveDate::MAX, the last date checked_add_months and
\* checked_add_signed can give; brought within reach of the scenarios of the
\* model: 40 months after the start
NaiveDate_MAX == Today + 40
\* ages of get_social_security_monthly_income
min_age == 62
normal_age == 67
max_age == 70
\* fixed point of get_monthly_rate: rates are in 1/1000
RateScale == 1000

(***************************************************************************)
(* Arithmetic helpers                                                      *)
(***************************************************************************)
\* floor of a / b for b > 0 (TLC's \div rounds towards minus infinity)
Div(a, b) == a \div b

Min(a, b) == IF a < b THEN a ELSE b
Max(a, b) == IF a > b THEN a ELSE b

RECURSIVE SumSeq(_)
SumSeq(s) == IF s = <<>> THEN 0 ELSE Head(s) + SumSeq(Tail(s))

(***************************************************************************)
(* utils.rs                                                                *)
(***************************************************************************)
\* (1 + annual_rate)^(1/12) - 1 in 1/1000, for the annual returns (in
\* percent) the model's inputs use; powf is tabulated, rounded to nearest.
get_monthly_rate(annual_pct) ==
    CASE annual_pct = -100 -> -1000
      [] annual_pct = -50  -> -56
      [] annual_pct = -40  -> -42
      [] annual_pct = -20  -> -18
      [] annual_pct = -10  -> -9
      [] annual_pct = 0    -> 0
      [] annual_pct = 5    -> 4
      [] annual_pct = 10   -> 8
      [] annual_pct = 20   -> 15
      [] annual_pct = 30   -> 22
      [] annual_pct = 50   -> 34
      [] annual_pct = 100  -> 59

\* years_since: whole years from date_of_birth to current_date, 0 when the
\* current date is before the date of birth
\* Variant: the years are counted from the current date to the date of
\* birth, which years_since answers with None.
get_age_swapped(date_of_birth, current_date) ==
    IF date_of_birth < current_date THEN 0
    ELSE Div(date_of_birth - current_date, 12)

get_age(date_of_birth, current_date) ==
    IF current_date < date_of_birth THEN 0
    ELSE Div(current_date - date_of_birth, 12)

\* Variant: the date is advanced by twice the months asked for.
checked_add_months_doubled(date, months) ==
    IF date + 2 * months > NaiveDate_MAX THEN <<>> ELSE <<date + 2 * months>>

\* NaiveDate::checked_add_months: None (<<>>) past the last date
checked_add_months(date, months) ==
    IF date + months > NaiveDate_MAX THEN <<>> ELSE <<date + months>>

\* the program adds years * 365 days; in months that is 12 * years
add_years(date, years) ==
    IF date + 12 * years > NaiveDate_MAX THEN date ELSE date + 12 * years

(***************************************************************************)
(* portfolio.rs                                                            *)
(***************************************************************************)
deposit(p, amount) == [p EXCEPT !.balance = @ + amount]

withdraw(p, amount) ==
    LET b == p.balance - amount
    IN  [p EXCEPT !.balance = IF b < 0 THEN 0 ELSE b]

\* the allocation grow() selects for the flag it is given
grow_allocation(p, use_post_retirement) ==
    IF use_post_retirement THEN p.pre_retirement_allocation
    ELSE p.post_retirement_allocation

\* Variant: the grown bonds are left out of the new balance.
grow_without_bonds(p, us, intl, bonds, use_post_retirement) ==
    LET allocation == grow_allocation(p, use_post_retirement)
        weighted == allocation.us_equities * (get_monthly_rate(us) + RateScale)
                    + allocation.international * (get_monthly_rate(intl) + RateScale)
    IN  [portfolio |-> [p EXCEPT !.balance = Div(p.balance * weighted, 100 * RateScale)],
         annualized_return |-> us * allocation.us_equities
                               + intl * allocation.international
                               + bonds * allocation.bonds]

\* grows the balance and returns the annualized blended return, in 1/100 of
\* a percent (percent return times percent allocation)
grow(p, us, intl, bonds, use_post_retirement) ==
    LET allocation == grow_allocation(p, use_post_retirement)
        weighted == allocation.us_equities * (get_monthly_rate(us) + RateScale)
                    + allocation.international * (get_monthly_rate(intl) + RateScale)
                    + allocation.bonds * (get_monthly_rate(bonds) + RateScale)
    IN  [portfolio |-> [p EXCEPT !.balance = Div(p.balance * weighted, 100 * RateScale)],
         annualized_return |-> us * allocation.us_equities
                               + intl * allocation.international
                               + bonds * allocation.bonds]

(***************************************************************************)
(* simulate.rs: pure functions                                             *)
(***************************************************************************)
RECURSIVE is_everyone_dead_from(_, _, _)
is_everyone_dead_from(i, current_date, retirees) ==
    IF i > Len(retirees) THEN TRUE
    ELSE IF get_age(retirees[i].date_of_birth, current_date) <= retirees[i].life_expectency
         THEN FALSE
         ELSE is_everyone_dead_from(i + 1, current_date, retirees)

\* Variant: a retiree whose age equals the life expectancy counts as dead.
is_everyone_dead_at_expectancy(current_date, input) ==
    \A i \in 1..Len(input.retirees) :
        get_age(input.retirees[i].date_of_birth, current_date)
            >= input.retirees[i].life_expectency

is_everyone_dead(current_date, input) ==
    is_everyone_dead_from(1, current_date, input.retirees)

\* Variant: the bracket that ends the loop returns its own tax without the
\* tax accumulated over the brackets below it.
RECURSIVE get_taxes_from_without_total(_, _, _, _)
get_taxes_from_without_total(i, monthly_income, total_tax, tax_rates) ==
    IF i > Len(tax_rates) THEN [tax |-> 0, rate |-> 0, panic |-> TRUE]
    ELSE IF monthly_income * 12 <= tax_rates[i].income
         THEN [tax |-> Div(monthly_income * tax_rates[i].rate, 100),
               rate |-> tax_rates[i].rate, panic |-> FALSE]
         ELSE get_taxes_from_without_total(i + 1,
                             monthly_income - Div(tax_rates[i].income, 12),
                             total_tax + Div(Div(tax_rates[i].income, 12) * tax_rates[i].rate, 100),
                             tax_rates)

\* the loop of get_taxes from bracket i on; panic when no bracket is left
RECURSIVE get_taxes_from(_, _, _, _)
get_taxes_from(i, monthly_income, total_tax, tax_rates) ==
    IF i > Len(tax_rates) THEN [tax |-> 0, rate |-> 0, panic |-> TRUE]
    ELSE IF monthly_income * 12 <= tax_rates[i].income
         THEN [tax |-> total_tax + Div(monthly_income * tax_rates[i].rate, 100),
               rate |-> tax_rates[i].rate, panic |-> FALSE]
         ELSE get_taxes_from(i + 1,
                             monthly_income - Div(tax_rates[i].income, 12),
                             total_tax + Div(Div(tax_rates[i].income, 12) * tax_rates[i].rate, 100),
                             tax_rates)

get_taxes(monthly_income, standard_deduction, tax_rates) ==
    LET taxable == IF monthly_income > Div(standard_deduction, 12)
                   THEN monthly_income - Div(standard_deduction, 12)
                   ELSE 0
    IN  get_taxes_from(1, taxable, 0, tax_rates)

\* Variant: the band from the normal to the maximum age interpolates over
\* the width of the early band.
get_social_security_monthly_income_early_width(retirement_age, benefit_early, benefit_full, benefit_delayed) ==
    IF retirement_age >= max_age THEN [num |-> benefit_delayed, den |-> 1]
    ELSE IF retirement_age < min_age THEN [num |-> 0, den |-> 1]
    ELSE IF retirement_age >= normal_age
         THEN [num |-> benefit_full * (normal_age - min_age)
                       + (benefit_delayed - benefit_full) * (retirement_age - normal_age),
               den |-> normal_age - min_age]
         ELSE [num |-> benefit_early * (normal_age - min_age)
                       + (benefit_full - benefit_early) * (retirement_age - min_age),
               den |-> normal_age - min_age]

\* The benefit as an exact fraction num / den (the program divides in f32).
get_social_security_monthly_income(retirement_age, benefit_early, benefit_full, benefit_delayed) ==
    IF retirement_age >= max_age THEN [num |-> benefit_delayed, den |-> 1]
    ELSE IF retirement_age < min_age THEN [num |-> 0, den |-> 1]
    ELSE IF retirement_age >= normal_age
         THEN [num |-> benefit_full * (max_age - normal_age)
                       + (benefit_delayed - benefit_full) * (retirement_age - normal_age),
               den |-> max_age - normal_age]
         ELSE [num |-> benefit_early * (normal_age - min_age)
                       + (benefit_full - benefit_early) * (retirement_age - min_age),
               den |-> normal_age - min_age]

(***************************************************************************)
(* simulate.rs: the engine                                                 *)
(***************************************************************************)
\* RetireeInfo of retiree r, built by Simulation::new
RetireeInfoOf(r) ==
    LET ss == get_social_security_monthly_income(
                  r.social_security_age,
                  r.social_security_amount_early,
                  r.social_security_amount_full,
                  r.social_security_amount_delayed)
    IN  [social_security_date |-> add_years(r.date_of_birth, r.social_security_age),
         date_of_birth |-> r.date_of_birth,
         social_security_income |-> Div(ss.num, ss.den)]

\* Simulation::new
Simulation_new(input) ==
    [simulation_results_ |->
        [retirement_date |-> add_years(input.retirees[1].date_of_birth,
                                       input.retirees[1].retirement_age),
         retirement_age |-> input.retirees[1].retirement_age,
         retirees |-> [i \in 1..Len(input.retirees) |-> RetireeInfoOf(input.retirees[i])],
         monthly_snapshot |-> <<>>,
         average_return |-> 0],
     current_date_ |-> Today,
     portfolio_ |-> input.portfolio,
     expenses_ |-> input.expenses.monthly,
     tax_rates_ |-> input.tax_rates.tax_levels,
     sum_of_returns_ |-> 0]

\* pre-retirement contributions of one month (simulate.rs 176-181)
contributions(self, input) ==
    SumSeq([i \in 1..Len(input.retirees) |->
        IF self.current_date_ < self.simulation_results_.retirement_date
        THEN Div(Div(input.retirees[i].salary_annual
                     * input.retirees[i].retirement_contribution_percent, 100), 12)
        ELSE 0])

\* social-security income of one month (simulate.rs 184-189)
social_security_of_month(self, input) ==
    SumSeq([i \in 1..Len(input.retirees) |->
        IF self.current_date_ > self.simulation_results_.retirees[i].social_security_date
        THEN self.simulation_results_.retirees[i].social_security_income
        ELSE 0])

\* pension income of one month (simulate.rs 195-201)
pension_of_month(self, input) ==
    SumSeq([i \in 1..Len(input.retirees) |->
        IF self.current_date_ >= add_years(input.retirees[i].date_of_birth,
                                           input.retirees[i].pension_age)
        THEN input.retirees[i].pension_monthly_income
        ELSE 0])

\* other retirement income of one month (simulate.rs 204-209)
other_income_of_month(self, input) ==
    SumSeq([i \in 1..Len(input.retirees) |->
        IF self.current_date_ >= self.simulation_results_.retirement_date
        THEN input.retirees[i].other_monthly_retirement_income
        ELSE 0])

\* the withdrawal of the taxes, then of the required withdrawals
\* (simulate.rs 239-250)
\* Variant: the taxes are subtracted without the clamp.
withdraw_taxes_unclamped(p, taxes) ==
    [p EXCEPT !.balance = @ - taxes]

withdraw_taxes(p, taxes) ==
    IF p.balance > taxes THEN withdraw(p, taxes) ELSE [p EXCEPT !.balance = 0]

\* Variant: the required withdrawals are subtracted without the clamp.
withdraw_expenses_unclamped(p, withdrawals) ==
    [p EXCEPT !.balance = @ - withdrawals]

withdraw_expenses(p, withdrawals) ==
    IF p.balance > withdrawals THEN withdraw(p, withdrawals) ELSE [p EXCEPT !.balance = 0]

\* the value run_simulation_one_month returns at its end (simulate.rs 276)
finished_at_month_end(p) == p.balance = 0

\* the cash flows of a call that found nobody alive, or that panicked
NoFlows == [active |-> FALSE, after_contributions |-> 0, income |-> 0,
            after_deposit |-> 0, taxes |-> 0, after_taxes |-> 0,
            withdrawals |-> 0, after_withdrawals |-> 0]

\* Simulation::run_simulation_one_month: the engine after the call, the
\* value returned (ret: Ok(ret)), whether the call panicked, and the
\* balance between the cash flows of its lines 236-250 (flows).
run_simulation_one_month(self, input, us, intl, bonds) ==
    IF is_everyone_dead(self.current_date_, input)
    THEN [sim |-> self, ret |-> TRUE, panic |-> FALSE, date_overflow |-> FALSE,
          flows |-> NoFlows]
    ELSE
    LET retired == self.current_date_ >= self.simulation_results_.retirement_date
        p1 == deposit(self.portfolio_, contributions(self, input))
        ss == social_security_of_month(self, input)
        pension == pension_of_month(self, input)
        other == other_income_of_month(self, input)
        income == ss + pension + other
        taxable_income == Div(ss * 85, 100) + pension + other
        withdrawals == IF retired /\ income < self.expenses_
                       THEN self.expenses_ - income ELSE 0
        tx == get_taxes(withdrawals + taxable_income,
                        input.tax_rates.standard_deduction, self.tax_rates_)
        taxes == Div(tx.tax * 100, 100 - tx.rate)
        withdrawal_rate == IF p1.balance > 0
                           THEN Div((withdrawals + taxes) * 12 * 100, p1.balance)
                           ELSE 0
        p2 == IF income > self.expenses_ THEN deposit(p1, income - self.expenses_) ELSE p1
        p3 == withdraw_taxes(p2, taxes)
        p4 == withdraw_expenses(p3, withdrawals)
        g == grow(p4, us, intl, bonds, retired)
        sum == self.sum_of_returns_ + g.annualized_return
        n == Len(self.simulation_results_.monthly_snapshot)
        monthly_balance == [date |-> self.current_date_,
                            balance |-> g.portfolio.balance,
                            expenses |-> IF retired THEN self.expenses_ ELSE 0,
                            income |-> income,
                            taxes |-> taxes,
                            tax_rate |-> tx.rate,
                            withdrawal_rate |-> withdrawal_rate,
                            annualized_return |-> g.annualized_return]
        flows == [active |-> TRUE,
                  after_contributions |-> p1.balance,
                  income |-> income,
                  after_deposit |-> p2.balance,
                  taxes |-> taxes,
                  after_taxes |-> p3.balance,
                  withdrawals |-> withdrawals,
                  after_withdrawals |-> p4.balance]
    IN  IF tx.panic
        THEN [sim |-> self, ret |-> FALSE, panic |-> TRUE, date_overflow |-> FALSE,
              flows |-> NoFlows]
        ELSE IF checked_add_months(self.current_date_, 1) = <<>>
        \* checked_add_months gives None and unwrap panics (274), the
        \* snapshot already pushed
        THEN [sim |-> [self EXCEPT
                        !.portfolio_ = g.portfolio,
                        !.sum_of_returns_ = sum,
                        !.simulation_results_.average_return = Div(sum, n + 1),
                        !.simulation_results_.monthly_snapshot = Append(@, monthly_balance)],
              ret |-> FALSE,
              panic |-> TRUE,
              date_overflow |-> TRUE,
              flows |-> flows]
        ELSE [sim |-> [self EXCEPT
                        !.portfolio_ = g.portfolio,
                        !.sum_of_returns_ = sum,
                        !.simulation_results_.average_return = Div(sum, n + 1),
                        !.simulation_results_.monthly_snapshot = Append(@, monthly_balance),
                        !.current_date_ = checked_add_months(@, 1)[1]],
              ret |-> finished_at_month_end(g.portfolio),
              panic |-> FALSE,
              date_overflow |-> FALSE,
              flows |-> flows]

(***************************************************************************)
(* run_simulation (simulate.rs 280-295): the returns every month is        *)
(* stepped with                                                            *)
(***************************************************************************)
\* Variant: the international slot is given the domestic expected return.
uniform_returns_us_for_international(input) ==
    [us |-> input.portfolio.us_equity_expected_returns,
     intl |-> input.portfolio.us_equity_expected_returns,
     bonds |-> input.portfolio.bonds_expected_returns]

uniform_returns(input) ==
    [us |-> input.portfolio.us_equity_expected_returns,
     intl |-> input.portfolio.international_equity_expected_returns,
     bonds |-> input.portfolio.bonds_expected_returns]

(***************************************************************************)
(* scan.rs                                                                 *)
(***************************************************************************)
ScanResults_new ==
    [scenario_results |-> <<>>,
     num_simulations |-> 0,
     num_successful |-> 0,
     min_balance |-> F32_MAX,
     max_balance |-> 0,
     sorted_indices |-> <<>>,
     sorting_info |-> <<>>]

\* the comparator of both sort_by calls: Less when a sorts before b
sort_cmp_less(a, b) ==
    \/ a.num_months < b.num_months
    \/ a.num_months = b.num_months /\ a.ending_balance < b.ending_balance

\* slice::sort_by is a stable sort: x goes behind every element that does
\* not compare greater than x
RECURSIVE insert_sorted(_, _)
insert_sorted(sorted, x) ==
    IF sorted = <<>> THEN <<x>>
    ELSE IF sort_cmp_less(x, Head(sorted)) THEN <<x>> \o sorted
         ELSE <<Head(sorted)>> \o insert_sorted(Tail(sorted), x)

RECURSIVE sort_by(_)
sort_by(v) ==
    IF v = <<>> THEN <<>>
    ELSE insert_sorted(sort_by(SubSeq(v, 1, Len(v) - 1)), v[Len(v)])

\* ScanResults::sort_results
sort_results(results) ==
    LET sorted == sort_by(results.sorting_info)
    IN  [results EXCEPT
           !.sorting_info = sorted,
           !.sorted_indices = @ \o [i \in 1..Len(sorted) |-> sorted[i].index]]

\* Variant: a scenario that ended with a zero balance is counted successful.
add_scenario_to_results_zero_successful(results, scenario, index) ==
    LET snaps == scenario.simulation_results.monthly_snapshot
        last_balance == snaps[Len(snaps)].balance
    IN  [results EXCEPT
           !.num_simulations = @ + 1,
           !.min_balance = Min(@, last_balance),
           !.max_balance = Max(@, last_balance),
           !.sorting_info = Append(@, [index |-> index,
                                       num_months |-> Len(snaps),
                                       ending_balance |-> last_balance]),
           !.num_successful = IF last_balance >= 0 THEN @ + 1 ELSE @,
           !.scenario_results = Append(@, scenario)]

\* add_scenario_to_results, for a scenario with at least one snapshot (with
\* none, len() - 1 underflows and the call panics)
add_scenario_to_results(results, scenario, index) ==
    LET snaps == scenario.simulation_results.monthly_snapshot
        last_balance == snaps[Len(snaps)].balance
    IN  [results EXCEPT
           !.num_simulations = @ + 1,
           !.min_balance = Min(@, last_balance),
           !.max_balance = Max(@, last_balance),
           !.sorting_info = Append(@, [index |-> index,
                                       num_months |-> Len(snaps),
                                       ending_balance |-> last_balance]),
           !.num_successful = IF last_balance > 0 THEN @ + 1 ELSE @,
           !.scenario_results = Append(@, scenario)]

(***************************************************************************)
(* historical_scan.rs                                                      *)
(***************************************************************************)
HistoricalScanResults_new ==
    [scenario_results |-> <<>>,
     num_simulations |-> 0,
     num_successful |-> 0,
     min_balance |-> F32_MAX,
     max_balance |-> 0,
     indices_failed |-> <<>>]

\* Option<f32>: None is <<>>, Some(v) is <<v>>
unwrap_or(opt, default) == IF opt = <<>> THEN default ELSE opt[1]

\* Variant: a missing international return falls back to the bond column.
historical_triple_bond_fallback(returns, i) ==
    LET rec == returns[i + 1]
    IN  [us |-> rec.sp500return,
         intl |-> unwrap_or(rec.international, rec.tbill10year),
         bonds |-> rec.tbill10year]

\* the returns run_scenario passes for the record at 0-based index i
historical_triple(returns, i) ==
    LET rec == returns[i + 1]
    IN  [us |-> rec.sp500return,
         intl |-> unwrap_or(rec.international, rec.sp500return),
         bonds |-> rec.tbill10year]

\* Variant: the index is advanced without the wrap to 0.
next_index_without_wrap(i, len) == i + 1

\* run_scenario's advance of the index past a year (historical_scan.rs
\* 175-178)
next_index(i, len) == IF i + 1 >= len THEN 0 ELSE i + 1

\* run_scenario (historical_scan.rs 157-186) as a function of the input, the
\* dataset and the starting index: the loop from the engine state sim, the
\* dataset index idx and the month counter month on
RECURSIVE historical_run_from(_, _, _, _, _)
historical_run_from(sim, input, returns, idx, month) ==
    LET r == historical_triple(returns, idx)
        res == run_simulation_one_month(sim, input, r.us, r.intl, r.bonds)
    IN  IF res.panic THEN [sim |-> res.sim, index |-> idx, panic |-> TRUE]
        ELSE IF res.ret THEN [sim |-> res.sim, index |-> idx, panic |-> FALSE]
        ELSE IF month + 1 = 12
             THEN historical_run_from(res.sim, input, returns,
                                      next_index(idx, Len(returns)), 0)
             ELSE historical_run_from(res.sim, input, returns, idx, month + 1)

historical_run_scenario(starting_index, returns, input) ==
    LET out == historical_run_from(Simulation_new(input), input, returns, starting_index, 0)
    IN  [simulation_results |-> out.sim.simulation_results_,
         starting_year |-> returns[starting_index + 1].year,
         ending_year |-> returns[out.index + 1].year]

\* the body of the scan loop after run_scenario returned (historical_scan.rs
\* 223-239), for a scenario with at least one snapshot
historical_accumulate(results, sorted_results, scenario, index) ==
    LET snaps == scenario.simulation_results.monthly_snapshot
        last_balance == snaps[Len(snaps)].balance
    IN  [results |->
            [results EXCEPT
               !.num_simulations = @ + 1,
               !.num_successful = IF last_balance > 0 THEN @ + 1 ELSE @,
               !.min_balance = IF last_balance > 0 THEN Min(@, last_balance) ELSE @,
               !.max_balance = IF last_balance > 0 THEN Max(@, last_balance) ELSE @,
               !.scenario_results = Append(@, scenario)],
         sorted_results |->
            IF last_balance > 0 THEN sorted_results
            ELSE Append(sorted_results, [index |-> index,
                                         num_months |-> Len(snaps),
                                         ending_balance |-> last_balance])]

\* the end of run_historical_scan (historical_scan.rs 242-249)
historical_finish(results, sorted_results) ==
    LET sorted == sort_by(sorted_results)
    IN  [results EXCEPT
           !.indices_failed = @ \o [i \in 1..Len(sorted) |-> sorted[i].index]]

(***************************************************************************)
(* main.rs: the tax schedule as parse_tax_rates and parse_input_file build *)
(* it from the levels of the configuration file                            *)
(***************************************************************************)
\* main.rs 249-267: a zero bracket first; every level's ceiling is the next
\* level's income minus 1, the last one's is f32::MAX
parse_tax_rates(standard_deduction, levels) ==
    [standard_deduction |-> standard_deduction,
     tax_levels |->
        <<[income |-> 0, rate |-> 0]>> \o
        [i \in 1..Len(levels) |->
            [income |-> IF i < Len(levels) THEN levels[i + 1].income - 1 ELSE F32_MAX,
             rate |-> levels[i].rate]]]

(***************************************************************************)
(* Inputs: the configurations and the dataset the model is run on          *)
(***************************************************************************)
\* a retiree of the configuration: age in months today, retirement age, life
\* expectancy, salary, contribution percent, social-security age, pension
\* age, pension, other income, and the three social-security tiers
Retiree(age_months, ret_age, life, salary, percent, ss_age, pen_age, pension, other, early, full, delayed) ==
    [date_of_birth |-> Today - age_months,
     retirement_age |-> ret_age,
     life_expectency |-> life,
     salary_annual |-> salary,
     retirement_contribution_percent |-> percent,
     social_security_age |-> ss_age,
     pension_age |-> pen_age,
     pension_monthly_income |-> pension,
     other_monthly_retirement_income |-> other,
     social_security_amount_early |-> early,
     social_security_amount_full |-> full,
     social_security_amount_delayed |-> delayed]

\* 64 years old, works one more year, lives two more years
Worker == Retiree(64 * 12, 65, 65, 12000, 10, 65, 65, 50, 20, 100, 200, 400)
\* 63 years old, already claims social security, retires later, dies earlier
Spouse == Retiree(63 * 12, 66, 63, 6000, 10, 62, 66, 30, 0, 90, 150, 210)
\* no salary and no income of any kind, 18 months to live
Idle == Retiree(64 * 12 + 6, 65, 65, 0, 0, 65, 65, 0, 0, 0, 0, 0)
\* retired, one year to live
Retired == Retiree(68 * 12, 65, 68, 0, 0, 67, 65, 0, 0, 100, 200, 400)
\* older than the life expectancy when the scenario starts
Deceased == Retiree(70 * 12, 65, 65, 0, 0, 67, 65, 0, 0, 100, 200, 400)

\* no income of any kind and a life expectancy past the last date
LongLived == Retiree(64 * 12, 65, 70, 0, 0, 65, 65, 0, 0, 0, 0, 0)

\* 64 years old, works two more years, lives two more years
Partner == Retiree(64 * 12, 66, 65, 6000, 10, 65, 66, 0, 0, 90, 150, 210)

Households ==
    {<<Worker>>, <<Worker, Spouse>>, <<Worker, Partner>>, <<Idle>>, <<Retired>>,
     <<Deceased>>, <<LongLived>>}

Balances == {0, 300, 3900, 10000}

MonthlyExpenses == {0, 500}

Allocation(us, intl, bonds) == [us_equities |-> us, international |-> intl, bonds |-> bonds]

Portfolio(balance, us, us_sd, intl, intl_sd, bonds, bonds_sd) ==
    [balance |-> balance,
     pre_retirement_allocation |-> Allocation(60, 30, 10),
     post_retirement_allocation |-> Allocation(20, 20, 60),
     us_equity_expected_returns |-> us,
     us_equity_standard_deviation |-> us_sd,
     international_equity_expected_returns |-> intl,
     international_equity_standard_deviation |-> intl_sd,
     bonds_expected_returns |-> bonds,
     bonds_standard_deviation |-> bonds_sd]

Portfolios ==
    {Portfolio(b, 0, 0, 0, 0, 0, 0) : b \in Balances}
    \cup {Portfolio(b, 10, 0, 5, 0, 0, 0) : b \in Balances}
    \cup {Portfolio(b, 10, 10, 5, 0, 0, 0) : b \in Balances}
    \cup {Portfolio(3900, 10, -1, 5, 0, 0, 0)}

\* main.rs 295: the brackets sorted by ascending ceiling
RECURSIVE insert_tax_level(_, _)
insert_tax_level(sorted, x) ==
    IF sorted = <<>> THEN <<x>>
    ELSE IF x.income < Head(sorted).income THEN <<x>> \o sorted
         ELSE <<Head(sorted)>> \o insert_tax_level(Tail(sorted), x)

RECURSIVE sort_tax_levels(_)
sort_tax_levels(v) ==
    IF v = <<>> THEN <<>>
    ELSE insert_tax_level(sort_tax_levels(SubSeq(v, 1, Len(v) - 1)), v[Len(v)])

\* parse_input_file: the tax schedule of the configuration
parse_input_file_tax_rates(standard_deduction, levels) ==
    LET parsed == parse_tax_rates(standard_deduction, levels)
    IN  [parsed EXCEPT !.tax_levels = sort_tax_levels(@)]

TaxRates == parse_input_file_tax_rates(1200, <<[income |-> 0, rate |-> 10],
                                               [income |-> 6000, rate |-> 20]>>)

Inputs ==
    {[retirees |-> h, portfolio |-> p, expenses |-> [monthly |-> e], tax_rates |-> TaxRates] :
        h \in Households, p \in Portfolios, e \in MonthlyExpenses}

\* returns.csv as parse_returns loads it: one record per year, the
\* international return missing in the early years
SP500 == <<20, -40, 10, 0>>
TBill10 == <<5, 0, -10>>
HistoricalReturns ==
    [i \in 1..NumRecords |->
        [year |-> 1928 + i - 1,
         sp500return |-> SP500[((i - 1) % 4) + 1],
         tbill10year |-> TBill10[((i - 1) % 3) + 1],
         international |-> IF i <= 2 THEN <<>> ELSE <<30>>]]

\* a dataset of years without any return
FlatReturns ==
    [i \in 1..NumRecords |->
        [year |-> 1928 + i - 1, sp500return |-> 0, tbill10year |-> 0,
         international |-> IF i <= 1 THEN <<>> ELSE <<0>>]]

\* Normal::new gives Err for a standard deviation it rejects; -1 is such a
\* value of the model
Normal_new_is_err(mean, std_dev) == std_dev < 0

\* what a draw from Normal(mean, std_dev) can give, in the model
Samples(mean, std_dev) == {mean - std_dev, mean + std_dev}

SSAmounts == {0, 1000, 2000, 4000}

\* the tax schedules get_taxes is called with on its own: the levels of a
\* configuration file (income from which a rate applies), parsed as
\* parse_input_file parses them, and the standard deduction
Level(income, rate) == [income |-> income, rate |-> rate]

TaxLevelLists ==
    {<<Level(0, 15)>>,
     <<Level(0, 10), Level(6000, 20)>>,
     <<Level(0, 10), Level(6000, 20), Level(12000, 30)>>,
     <<Level(0, 0), Level(3000, 12), Level(6000, 12), Level(18000, 40)>>,
     <<Level(0, 30), Level(6000, 10)>>}

StandardDeductions == {-1200, 0, 1200}

TaxSchedules ==
    {parse_input_file_tax_rates(d, l) : d \in StandardDeductions, l \in TaxLevelLists}

\* the monthly incomes: multiples of 50 and the neighbours of the ceilings
TaxIncomes ==
    {50 * k : k \in 0..50}
    \cup {249, 251, 349, 351, 499, 501, 599, 601, 999, 1001, 1099, 1101, 1499, 1501, 1599, 1601}

(***************************************************************************)
(* State                                                                   *)
(***************************************************************************)
VARIABLES
    input,               \* the configuration (read-only)
    historical_returns,  \* the dataset (read-only)
    entry,               \* the entry point running: "main", "historical", "ss", "tax",
                         \* "engine"
    pc,                  \* the position in it
    simulation,          \* the Simulation of the scenario being run
    call,                \* the last call of run_simulation_one_month
    simulation_results,  \* main's result of run_simulation
    index,               \* the scan loop's index
    s_index,             \* run_scenario's index into the dataset
    s_month,             \* run_scenario's month counter (0..11)
    s_returns,           \* the Monte Carlo run_scenario's sampled returns
    results,             \* the ScanResults of the Monte Carlo scan
    hist_results,        \* the HistoricalScanResults
    sorted_results,      \* run_historical_scan's sorted_results
    endings,             \* per recorded scenario: how its run ended
    ss_args,             \* arguments of get_social_security_monthly_income
    ss_result,           \* and its result
    tax_args,            \* arguments of get_taxes
    tax_result           \* and its result

vars == <<input, historical_returns, entry, pc, simulation, call,
          simulation_results, index, s_index, s_month, s_returns, results,
          hist_results, sorted_results, endings, ss_args, ss_result, tax_args, tax_result>>

NoCall == [n |-> 0, date |-> 0, us |-> 0, intl |-> 0, bonds |-> 0, ret |-> FALSE,
           date_overflow |-> FALSE, flows |-> NoFlows]
NoReturns == [us |-> 0, intl |-> 0, bonds |-> 0]
NoSSArgs == [age |-> 0, early |-> 0, full |-> 0, delayed |-> 0]
NoTaxArgs == [monthly_income |-> 0, tax_rates |-> TaxRates]
NoTaxResult == [tax |-> 0, rate |-> 0, panic |-> FALSE]

\* what the call of run_simulation_one_month with returns r did
step(r) == run_simulation_one_month(simulation, input, r.us, r.intl, r.bonds)

call_of(r, res) ==
    [n |-> call.n + 1, date |-> simulation.current_date_,
     us |-> r.us, intl |-> r.intl, bonds |-> r.bonds, ret |-> res.ret,
     date_overflow |-> res.date_overflow, flows |-> res.flows]

\* how a run that just returned Ok(true) ended
ending_of(c) == IF is_everyone_dead(c.date, input) THEN "death" ELSE "depletion"

InitCommon ==
    /\ simulation = "none"
    /\ call = NoCall
    /\ simulation_results = "none"
    /\ index = 0
    /\ s_index = 0
    /\ s_month = 0
    /\ s_returns = NoReturns
    /\ results = ScanResults_new
    /\ hist_results = HistoricalScanResults_new
    /\ sorted_results = <<>>
    /\ endings = <<>>

Init ==
    /\ input \in Inputs
    /\ entry \in {"main", "historical"}
    /\ pc = IF entry = "main" THEN "run_simulation" ELSE "hist_scan"
    /\ historical_returns \in IF entry = "main" THEN {HistoricalReturns}
                              ELSE {HistoricalReturns, FlatReturns}
    /\ ss_args = NoSSArgs
    /\ ss_result = [num |-> 0, den |-> 0]
    /\ tax_args = NoTaxArgs
    /\ tax_result = NoTaxResult
    /\ InitCommon

(***************************************************************************)
(* main (main.rs 441-451, 469-473) with run_simulation                     *)
(***************************************************************************)
\* run_simulation: Simulation::new
run_simulation_new ==
    /\ pc = "run_simulation"
    /\ simulation' = Simulation_new(input)
    /\ call' = NoCall
    /\ pc' = "uniform_loop"
    /\ UNCHANGED <<input, historical_returns, entry, simulation_results, index,
                   s_index, s_month, s_returns, results, hist_results,
                   sorted_results, endings, ss_args, ss_result, tax_args, tax_result>>

\* run_simulation: one iteration of its loop
run_simulation_step ==
    /\ pc = "uniform_loop"
    /\ LET r == uniform_returns(input)
           res == step(r)
       IN  /\ simulation' = res.sim
           /\ call' = call_of(r, res)
           /\ pc' = IF res.panic THEN "panicked"
                    ELSE IF res.ret THEN "main_check" ELSE "uniform_loop"
           /\ simulation_results' = IF ~res.panic /\ res.ret
                                    THEN res.sim.simulation_results_
                                    ELSE simulation_results
    /\ UNCHANGED <<input, historical_returns, entry, index, s_index, s_month,
                   s_returns, results, hist_results, sorted_results, endings,
                   ss_args, ss_result, tax_args, tax_result>>

\* main.rs 445: reads the last snapshot's balance, then goes on to the
\* Monte Carlo scan (ScanResults::new, monte_carlo.rs 54)
main_check ==
    /\ pc = "main_check"
    /\ pc' = IF Len(simulation_results.monthly_snapshot) = 0 THEN "panicked" ELSE "mc_scan"
    /\ results' = ScanResults_new
    /\ index' = 0
    /\ UNCHANGED <<input, historical_returns, entry, simulation, call,
                   simulation_results, s_index, s_month, s_returns, hist_results,
                   sorted_results, endings, ss_args, ss_result, tax_args, tax_result>>

(***************************************************************************)
(* monte_carlo.rs                                                          *)
(***************************************************************************)
\* run_scenario: Simulation::new (monte_carlo.rs 20)
mc_run_scenario_new ==
    /\ pc = "mc_scan"
    /\ index < MaxMCScenarios
    /\ simulation' = Simulation_new(input)
    /\ call' = NoCall
    /\ pc' = IF \/ Normal_new_is_err(input.portfolio.us_equity_expected_returns,
                                      input.portfolio.us_equity_standard_deviation)
                \/ Normal_new_is_err(input.portfolio.international_equity_expected_returns,
                                      input.portfolio.international_equity_standard_deviation)
                \/ Normal_new_is_err(input.portfolio.bonds_expected_returns,
                                      input.portfolio.bonds_standard_deviation)
             THEN "panicked" ELSE "mc_sample"
    /\ UNCHANGED <<input, historical_returns, entry, simulation_results, index,
                   s_index, s_month, s_returns, results, hist_results,
                   sorted_results, endings, ss_args, ss_result, tax_args, tax_result>>

\* run_scenario: the three draws at the top of the outer loop (30-32)
mc_sample ==
    /\ pc = "mc_sample"
    /\ \E us \in Samples(input.portfolio.us_equity_expected_returns,
                         input.portfolio.us_equity_standard_deviation),
          intl \in Samples(input.portfolio.international_equity_expected_returns,
                           input.portfolio.international_equity_standard_deviation),
          bonds \in Samples(input.portfolio.bonds_expected_returns,
                            input.portfolio.bonds_standard_deviation) :
            s_returns' = [us |-> us, intl |-> intl, bonds |-> bonds]
    /\ s_month' = 0
    /\ pc' = "mc_months"
    /\ UNCHANGED <<input, historical_returns, entry, simulation, call,
                   simulation_results, index, s_index, results, hist_results,
                   sorted_results, endings, ss_args, ss_result, tax_args, tax_result>>

\* run_scenario: one iteration of the inner loop (33-41)
mc_step ==
    /\ pc = "mc_months"
    /\ LET res == step(s_returns)
       IN  /\ simulation' = res.sim
           /\ call' = call_of(s_returns, res)
           /\ pc' = IF res.panic THEN "panicked"
                    ELSE IF res.ret THEN "mc_add"
                    ELSE IF s_month + 1 = 12 THEN "mc_sample" ELSE "mc_months"
           /\ s_month' = IF ~res.panic /\ ~res.ret THEN s_month + 1 ELSE s_month
    /\ UNCHANGED <<input, historical_returns, entry, simulation_results, index,
                   s_index, s_returns, results, hist_results, sorted_results,
                   endings, ss_args, ss_result, tax_args, tax_result>>

\* run_scan: the scenario run_scenario returns (44-48) is added to the
\* results (58); after the last one, sort_results (61)
mc_add_scenario ==
    /\ pc = "mc_add"
    /\ LET scenario == [simulation_results |-> simulation.simulation_results_,
                        starting_year |-> 0, ending_year |-> 0]
           added == add_scenario_to_results(results, scenario, index)
       IN  IF Len(simulation.simulation_results_.monthly_snapshot) = 0
           THEN /\ pc' = "panicked"
                /\ results' = [results EXCEPT !.num_simulations = @ + 1]
                /\ UNCHANGED <<index, endings>>
           ELSE /\ index' = index + 1
                /\ endings' = Append(endings, ending_of(call))
                /\ results' = IF index + 1 = MaxMCScenarios THEN sort_results(added) ELSE added
                /\ pc' = IF index + 1 = MaxMCScenarios THEN "done" ELSE "mc_scan"
    /\ UNCHANGED <<input, historical_returns, entry, simulation, call,
                   simulation_results, s_index, s_month, s_returns, hist_results,
                   sorted_results, ss_args, ss_result, tax_args, tax_result>>

(***************************************************************************)
(* historical_scan.rs                                                      *)
(***************************************************************************)
\* Variant: the engine of a later scenario keeps the portfolio the scenario
\* before it ended with.
hist_run_scenario_new_shared_portfolio ==
    /\ pc = "hist_scan"
    /\ index < Len(historical_returns)
    /\ simulation' = IF index = 0 THEN Simulation_new(input)
                      ELSE [Simulation_new(input) EXCEPT !.portfolio_ = simulation.portfolio_]
    /\ call' = NoCall
    /\ s_index' = index
    /\ s_month' = 0
    /\ pc' = "hist_months"
    /\ UNCHANGED <<input, historical_returns, entry, simulation_results, index,
                   s_returns, results, hist_results, sorted_results, endings,
                   ss_args, ss_result, tax_args, tax_result>>

\* run_scenario: Simulation::new and index = starting_index (158-159)
hist_run_scenario_new ==
    /\ pc = "hist_scan"
    /\ index < Len(historical_returns)
    /\ simulation' = Simulation_new(input)
    /\ call' = NoCall
    /\ s_index' = index
    /\ s_month' = 0
    /\ pc' = "hist_months"
    /\ UNCHANGED <<input, historical_returns, entry, simulation_results, index,
                   s_returns, results, hist_results, sorted_results, endings,
                   ss_args, ss_result, tax_args, tax_result>>

\* run_scenario: one iteration of the inner loop, and past its twelfth
\* iteration the advance of the index (162-177)
hist_step ==
    /\ pc = "hist_months"
    /\ LET r == historical_triple(historical_returns, s_index)
           res == step(r)
           go_on == ~res.panic /\ ~res.ret
           year_over == go_on /\ s_month + 1 = 12
       IN  /\ simulation' = res.sim
           /\ call' = call_of(r, res)
           /\ pc' = IF res.panic THEN "panicked"
                    ELSE IF res.ret THEN "hist_add" ELSE "hist_months"
           /\ s_month' = IF year_over THEN 0
                         ELSE IF go_on THEN s_month + 1 ELSE s_month
           /\ s_index' = IF year_over
                         THEN next_index(s_index, Len(historical_returns))
                         ELSE s_index
    /\ UNCHANGED <<input, historical_returns, entry, simulation_results, index,
                   s_returns, results, hist_results, sorted_results, endings,
                   ss_args, ss_result, tax_args, tax_result>>

\* run_scenario returns the HistoricalScenario (181-185); run_historical_scan
\* accumulates it (223-239) and, after the last one, sorts (242-249)
hist_add_scenario ==
    /\ pc = "hist_add"
    /\ LET scenario == [simulation_results |-> simulation.simulation_results_,
                        starting_year |-> historical_returns[index + 1].year,
                        ending_year |-> historical_returns[s_index + 1].year]
           acc == historical_accumulate(hist_results, sorted_results, scenario, index)
           last == index + 1 = Len(historical_returns)
       IN  IF Len(simulation.simulation_results_.monthly_snapshot) = 0
           THEN /\ pc' = "panicked"
                /\ hist_results' = [hist_results EXCEPT !.num_simulations = @ + 1]
                /\ UNCHANGED <<index, endings, sorted_results>>
           ELSE /\ index' = index + 1
                /\ endings' = Append(endings, ending_of(call))
                /\ sorted_results' = IF last THEN sort_by(acc.sorted_results)
                                     ELSE acc.sorted_results
                /\ hist_results' = IF last
                                   THEN historical_finish(acc.results, acc.sorted_results)
                                   ELSE acc.results
                /\ pc' = IF last THEN "done" ELSE "hist_scan"
    /\ UNCHANGED <<input, historical_returns, entry, simulation, call,
                   simulation_results, s_index, s_month, s_returns, results,
                   ss_args, ss_result, tax_args, tax_result>>

(***************************************************************************)
(* The social-security interpolation on its own                            *)
(***************************************************************************)
InitSS ==
    /\ input \in {i \in Inputs : i.retirees = <<Idle>> /\ i.portfolio.balance = 0
                                  /\ i.expenses.monthly = 0
                                  /\ i.portfolio.us_equity_expected_returns = 0}
    /\ historical_returns = HistoricalReturns
    /\ entry = "ss"
    /\ pc = "ss"
    /\ ss_args \in [age : 58..MaxClaimAge, early : SSAmounts, full : SSAmounts,
                    delayed : SSAmounts]
    /\ ss_result = [num |-> 0, den |-> 0]
    /\ tax_args = NoTaxArgs
    /\ tax_result = NoTaxResult
    /\ InitCommon

\* get_social_security_monthly_income called on its own
ss_call ==
    /\ pc = "ss"
    /\ ss_result' = get_social_security_monthly_income(
                        ss_args.age, ss_args.early, ss_args.full, ss_args.delayed)
    /\ pc' = "ss_done"
    /\ UNCHANGED <<input, historical_returns, entry, simulation, call,
                   simulation_results, index, s_index, s_month, s_returns, results,
                   hist_results, sorted_results, endings, ss_args, tax_args,
                   tax_result>>

(***************************************************************************)
(* The tax computation on its own                                          *)
(***************************************************************************)
InitTax ==
    /\ input \in {i \in Inputs : i.retirees = <<Idle>> /\ i.portfolio.balance = 0
                                  /\ i.expenses.monthly = 0
                                  /\ i.portfolio.us_equity_expected_returns = 0}
    /\ historical_returns = HistoricalReturns
    /\ entry = "tax"
    /\ pc = "tax"
    /\ ss_args = NoSSArgs
    /\ ss_result = [num |-> 0, den |-> 0]
    /\ tax_args \in [monthly_income : TaxIncomes, tax_rates : TaxSchedules]
    /\ tax_result = NoTaxResult
    /\ InitCommon

\* get_taxes called on its own
tax_call ==
    /\ pc = "tax"
    /\ tax_result' = get_taxes(tax_args.monthly_income,
                               tax_args.tax_rates.standard_deduction,
                               tax_args.tax_rates.tax_levels)
    /\ pc' = "tax_done"
    /\ UNCHANGED <<input, historical_returns, entry, simulation, call,
                   simulation_results, index, s_index, s_month, s_returns, results,
                   hist_results, sorted_results, endings, ss_args, ss_result,
                   tax_args>>

(***************************************************************************)
(* The engine on its own: a caller that makes a Simulation and calls       *)
(* run_simulation_one_month with the expected returns, and goes on calling *)
(* after a call returned Ok(true); endings holds, per call that returned   *)
(* Ok(true), how the run had ended                                         *)
(***************************************************************************)
InitEngine ==
    /\ input \in Inputs
    /\ historical_returns = HistoricalReturns
    /\ entry = "engine"
    /\ pc = "engine_new"
    /\ ss_args = NoSSArgs
    /\ ss_result = [num |-> 0, den |-> 0]
    /\ tax_args = NoTaxArgs
    /\ tax_result = NoTaxResult
    /\ InitCommon

\* Simulation::new
engine_new ==
    /\ pc = "engine_new"
    /\ simulation' = Simulation_new(input)
    /\ call' = NoCall
    /\ pc' = "engine"
    /\ UNCHANGED <<input, historical_returns, entry, simulation_results, index,
                   s_index, s_month, s_returns, results, hist_results,
                   sorted_results, endings, ss_args, ss_result, tax_args, tax_result>>

\* a call of run_simulation_one_month, also on an engine that has reported
\* 'finished'
engine_step ==
    /\ pc = "engine"
    /\ Len(endings) <= MaxCallsAfterFinished
    /\ LET r == uniform_returns(input)
           res == step(r)
       IN  /\ simulation' = res.sim
           /\ call' = call_of(r, res)
           /\ pc' = IF res.panic THEN "panicked" ELSE "engine"
           /\ endings' = IF ~res.panic /\ res.ret
                         THEN Append(endings, ending_of(call_of(r, res)))
                         ELSE endings
    /\ UNCHANGED <<input, historical_returns, entry, simulation_results, index,
                   s_index, s_month, s_returns, results, hist_results,
                   sorted_results, ss_args, ss_result, tax_args, tax_result>>

(***************************************************************************)
(* Specifications                                                          *)
(***************************************************************************)
Next ==
    \/ run_simulation_new
    \/ run_simulation_step
    \/ main_check
    \/ mc_run_scenario_new
    \/ mc_sample
    \/ mc_step
    \/ mc_add_scenario
    \/ hist_run_scenario_new
    \/ hist_step
    \/ hist_add_scenario

Spec == Init /\ [][Next]_vars

NextSS == ss_call

SpecSS == InitSS /\ [][NextSS]_vars

NextTax == tax_call

SpecTax == InitTax /\ [][NextTax]_vars

NextEngine ==
    \/ engine_new
    \/ engine_step

SpecEngine == InitEngine /\ [][NextEngine]_vars

(***************************************************************************)
(* Properties                                                              *)
(***************************************************************************)
\* every retiree's age at date d exceeds the retiree's life expectancy
AllDeadAt(d) ==
    \A i \in 1..Len(input.retirees) :
        d - input.retirees[i].date_of_birth
            >= 12 * (input.retirees[i].life_expectency + 1)

\* a call of run_simulation_one_month has returned in the current scenario
Called == call.n > 0 /\ pc # "panicked"

\* C1: run_simulation_one_month returns true exactly when (a) at the start
\* of the call every retiree's age exceeded the life expectancy, or (b) the
\* balance is exactly zero at the end of the month; otherwise false.
C1_FinishedIffDeadOrZero ==
    Called =>
        (call.ret <=> (AllDeadAt(call.date) \/ simulation.portfolio_.balance = 0))

\* a month that ended the run by a zero balance while somebody was alive
C1_Witness ==
    /\ Called
    /\ call.n > 1
    /\ call.ret
    /\ ~AllDeadAt(call.date)
    /\ simulation.portfolio_.balance = 0

\* the configured amounts are non-negative and the tax rates below 100
NonNegativeInput ==
    /\ input.portfolio.balance >= 0
    /\ input.expenses.monthly >= 0
    /\ \A i \in 1..Len(input.retirees) :
          LET r == input.retirees[i]
          IN  /\ r.salary_annual >= 0
              /\ r.retirement_contribution_percent >= 0
              /\ r.pension_monthly_income >= 0
              /\ r.other_monthly_retirement_income >= 0
              /\ r.social_security_amount_early >= 0
              /\ r.social_security_amount_full >= 0
              /\ r.social_security_amount_delayed >= 0
    /\ \A i \in 1..Len(input.tax_rates.tax_levels) :
          /\ input.tax_rates.tax_levels[i].rate >= 0
          /\ input.tax_rates.tax_levels[i].rate < 100

\* C2: with non-negative configured amounts, tax rates below 100% and
\* annual returns above -100%, the balance is never negative: not after the
\* deposits, the withdrawal of the taxes, the withdrawal of the expenses or
\* the growth of any month; a withdrawal of an amount >= the balance leaves
\* exactly 0; every snapshot records a balance >= 0.
C2_BalanceNeverNegative ==
    (Called /\ NonNegativeInput /\ call.us > -100 /\ call.intl > -100 /\ call.bonds > -100) =>
        /\ simulation.portfolio_.balance >= 0
        /\ \A k \in 1..Len(simulation.simulation_results_.monthly_snapshot) :
              simulation.simulation_results_.monthly_snapshot[k].balance >= 0
        /\ call.flows.active =>
              /\ call.flows.after_contributions >= 0
              /\ call.flows.after_deposit >= 0
              /\ call.flows.after_taxes >= 0
              /\ call.flows.after_withdrawals >= 0
              /\ call.flows.taxes >= call.flows.after_deposit
                    => call.flows.after_taxes = 0
              /\ call.flows.withdrawals >= call.flows.after_taxes
                    => call.flows.after_withdrawals = 0
        /\ \A more \in {0, 1, 500} :
              withdraw(simulation.portfolio_,
                       simulation.portfolio_.balance + more).balance = 0

\* a month whose required withdrawal exceeded what the taxes had left
C2_Witness ==
    /\ Called
    /\ call.flows.active
    /\ call.flows.taxes > 0
    /\ call.flows.after_taxes > 0
    /\ call.flows.withdrawals > call.flows.after_taxes
    /\ call.flows.after_withdrawals = 0
    /\ simulation.portfolio_.balance = 0

\* C3: the benefit is piecewise linear in the claiming age: 0 below 62, the
\* early amount at 62, linear from early to full between 62 and 67, the
\* full amount at 67, linear from full to delayed between 67 and 70, the
\* delayed amount from 70 on; for early = 1000, full = 2000, delayed = 4000
\* the benefit at 63 is 1200 and at 68 it is 2000 + 2000/3.
C3_SocialSecurityPiecewiseLinear ==
    pc = "ss_done" =>
        LET a == ss_args.age
            e == ss_args.early
            f == ss_args.full
            d == ss_args.delayed
            v == ss_result
        IN  /\ v.den > 0
            /\ a < 62 => v.num = 0
            /\ a = 62 => v.num = e * v.den
            /\ (a >= 62 /\ a <= 67) => 5 * v.num = v.den * (5 * e + (f - e) * (a - 62))
            /\ a = 67 => v.num = f * v.den
            /\ (a >= 67 /\ a <= 70) => 3 * v.num = v.den * (3 * f + (d - f) * (a - 67))
            /\ a >= 70 => v.num = d * v.den
            /\ (e = 1000 /\ f = 2000 /\ d = 4000 /\ a = 63) => v.num = 1200 * v.den
            /\ (e = 1000 /\ f = 2000 /\ d = 4000 /\ a = 68) => 3 * v.num = v.den * (3 * 2000 + 2000)

\* the benefit at 68 for early = 1000, full = 2000, delayed = 4000
C3_Witness ==
    /\ pc = "ss_done"
    /\ ss_args = [age |-> 68, early |-> 1000, full |-> 2000, delayed |-> 4000]
    /\ 3 * ss_result.num = 8000 * ss_result.den

\* no expenses and no income of any kind: no contribution, no social
\* security, no pension, no other income
ZeroHousehold ==
    /\ input.expenses.monthly = 0
    /\ \A i \in 1..Len(input.retirees) :
          LET r == input.retirees[i]
          IN  /\ r.salary_annual * r.retirement_contribution_percent = 0
              /\ r.pension_monthly_income = 0
              /\ r.other_monthly_retirement_income = 0
              /\ r.social_security_amount_early = 0
              /\ r.social_security_amount_full = 0
              /\ r.social_security_amount_delayed = 0

\* every return a scenario of this run can be stepped with is zero
ZeroReturns ==
    IF entry = "main"
    THEN /\ input.portfolio.us_equity_expected_returns = 0
         /\ input.portfolio.international_equity_expected_returns = 0
         /\ input.portfolio.bonds_expected_returns = 0
         /\ input.portfolio.us_equity_standard_deviation = 0
         /\ input.portfolio.international_equity_standard_deviation = 0
         /\ input.portfolio.bonds_standard_deviation = 0
    ELSE \A i \in 1..Len(historical_returns) :
            /\ historical_returns[i].sp500return = 0
            /\ historical_returns[i].tbill10year = 0
            /\ historical_returns[i].international \in {<<>>, <<0>>}

\* the balance has stayed at the configured one, and a run that has ended
\* ended by the death condition
BalanceKeptUntilDeath ==
    /\ simulation.portfolio_.balance = input.portfolio.balance
    /\ \A k \in 1..Len(simulation.simulation_results_.monthly_snapshot) :
          simulation.simulation_results_.monthly_snapshot[k].balance
              = input.portfolio.balance
    /\ call.ret => AllDeadAt(call.date)

\* C4 as stated: for every non-negative initial balance, a household with
\* zero expenses, zero income and zero returns keeps its balance every month
\* and its scenario ends by the death condition, never by the zero-balance
\* signal.
C4_AnyBalanceKeptUntilDeath ==
    (Called /\ ZeroHousehold /\ ZeroReturns /\ input.portfolio.balance >= 0)
        => BalanceKeptUntilDeath

\* C4 amended: the same for every positive initial balance (a zero initial
\* balance ends the scenario in its first month by the zero-balance signal).
C4_PositiveBalanceKeptUntilDeath ==
    (Called /\ ZeroHousehold /\ ZeroReturns /\ input.portfolio.balance > 0)
        => BalanceKeptUntilDeath

\* such a scenario after more than a year, ended by the death condition
C4_Witness ==
    /\ Called
    /\ ZeroHousehold
    /\ ZeroReturns
    /\ input.portfolio.balance > 0
    /\ call.n > 12
    /\ call.ret
    /\ AllDeadAt(call.date)
    /\ simulation.portfolio_.balance = input.portfolio.balance

\* C5: a historical scan over N records runs exactly N scenarios, started
\* at the indices 0..N-1 in ascending order; every one of them, the one
\* started at the last index (which wraps to index 0) included, stays inside
\* the dataset, ends in a year of the dataset and is recorded; when the scan
\* is done num_simulations = N and the scenario list has length N.
C5_HistoricalScanRunsEveryIndex ==
    (entry = "historical" /\ pc # "panicked") =>
        LET N == Len(historical_returns)
            recorded == hist_results.scenario_results
        IN  /\ index \in 0..N
            /\ s_index \in 0..(N - 1)
            /\ Len(recorded) = index
            /\ hist_results.num_simulations = index
            /\ \A k \in 1..Len(recorded) :
                  /\ recorded[k].starting_year = historical_returns[k].year
                  /\ Len(recorded[k].simulation_results.monthly_snapshot) > 0
                  /\ \E j \in 1..N : recorded[k].ending_year = historical_returns[j].year
            /\ pc \in {"hist_months", "hist_add"} => index < N
            /\ pc = "done" => index = N

\* a finished scan whose last scenario ran for more than a year and so ended
\* in a year before the one it started in
C5_Witness ==
    /\ entry = "historical"
    /\ pc = "done"
    /\ hist_results.num_simulations = Len(historical_returns)
    /\ Len(hist_results.scenario_results) = Len(historical_returns)
    /\ LET last == hist_results.scenario_results[Len(historical_returns)]
       IN  /\ Len(last.simulation_results.monthly_snapshot) > 12
           /\ last.ending_year < last.starting_year

\* C6: in a historical scenario started at index i over N records, the m-th
\* month (m = 0, 1, ...) is stepped with the returns of the record at
\* (i + floor(m / 12)) mod N; the international return is the record's own
\* when it has one and its domestic-equity return otherwise.
C6_HistoricalReturnsByYear ==
    (entry = "historical" /\ pc \in {"hist_months", "hist_add"} /\ call.n > 0) =>
        LET N == Len(historical_returns)
            m == call.n - 1
            rec == historical_returns[((index + (m \div 12)) % N) + 1]
        IN  /\ call.us = rec.sp500return
            /\ call.bonds = rec.tbill10year
            /\ call.intl = IF rec.international # <<>> THEN rec.international[1]
                           ELSE rec.sp500return

\* the 13th month of the scenario started at the last index: stepped with
\* the first record, which has no international return
C6_Witness ==
    /\ entry = "historical"
    /\ pc = "hist_months"
    /\ index = Len(historical_returns) - 1
    /\ call.n = 13
    /\ historical_returns[1].international = <<>>
    /\ call.us = historical_returns[1].sp500return
    /\ call.us # 0
    /\ call.intl = call.us

\* C7: with zero standard deviation in all three distributions, every
\* scenario of the Monte Carlo scan has the monthly snapshots, and so the
\* final balance and the month count, of the run_simulation run over the
\* expected returns; a scenario still running has a prefix of them.
ZeroDeviation ==
    /\ input.portfolio.us_equity_standard_deviation = 0
    /\ input.portfolio.international_equity_standard_deviation = 0
    /\ input.portfolio.bonds_standard_deviation = 0

C7_ZeroDeviationIsUniform ==
    (entry = "main" /\ ZeroDeviation
        /\ pc \in {"mc_scan", "mc_sample", "mc_months", "mc_add", "done"}) =>
        LET uniform == simulation_results.monthly_snapshot
        IN  /\ \A k \in 1..Len(results.scenario_results) :
                  LET mc == results.scenario_results[k].simulation_results
                  IN  /\ mc.monthly_snapshot = uniform
                      /\ mc = simulation_results
            /\ pc \in {"mc_months", "mc_add"} =>
                  LET running == simulation.simulation_results_.monthly_snapshot
                  IN  /\ Len(running) <= Len(uniform)
                      /\ running = SubSeq(uniform, 1, Len(running))
            /\ pc = "mc_add" =>
                  simulation.simulation_results_ = simulation_results

\* a finished zero-deviation scan over returns that are not zero, every
\* scenario longer than a year and ending with money left
C7_Witness ==
    /\ entry = "main"
    /\ pc = "done"
    /\ ZeroDeviation
    /\ input.portfolio.us_equity_expected_returns # 0
    /\ Len(results.scenario_results) = MaxMCScenarios
    /\ Len(simulation_results.monthly_snapshot) > 12
    /\ simulation_results.monthly_snapshot[Len(simulation_results.monthly_snapshot)].balance > 0
    /\ simulation_results.monthly_snapshot[13].balance
           # simulation_results.monthly_snapshot[1].balance

\* the result of the scan the entry point runs
ScanOf == IF entry = "historical" THEN hist_results ELSE results

last_balance_of(scenario) ==
    scenario.simulation_results.monthly_snapshot[
        Len(scenario.simulation_results.monthly_snapshot)].balance

SuccessfulOf(scenarios) ==
    {k \in 1..Len(scenarios) : last_balance_of(scenarios[k]) > 0}

\* C8: the reported minimum and maximum ending balance are those of the
\* final balances of the successful scenarios only (with none, the starting
\* values f32::MAX and 0); a failed scenario changes neither.
C8_MinMaxOverSuccessfulOnly ==
    (pc # "panicked") =>
        LET r == ScanOf
            balances == {last_balance_of(r.scenario_results[k]) :
                            k \in SuccessfulOf(r.scenario_results)}
        IN  /\ \A b \in balances : r.min_balance <= b /\ b <= r.max_balance
            /\ r.min_balance \in balances \cup {F32_MAX}
            /\ r.max_balance \in balances \cup {0}
            /\ balances = {} => r.min_balance = F32_MAX /\ r.max_balance = 0

\* C9: num_simulations is the number of scenarios added, num_successful the
\* number of them whose last snapshot's balance is > 0; a scenario is
\* successful exactly when its run ended through the death condition and not
\* through the zero-balance signal; num_successful <= num_simulations.
C9_SuccessTally ==
    (pc # "panicked") =>
        LET r == ScanOf
            n == Len(r.scenario_results)
        IN  /\ r.num_simulations = n
            /\ Len(endings) = n
            /\ r.num_successful = Cardinality(SuccessfulOf(r.scenario_results))
            /\ \A k \in 1..n :
                  (k \in SuccessfulOf(r.scenario_results)) <=> (endings[k] = "death")
            /\ r.num_successful <= r.num_simulations

\* a finished Monte Carlo scan with a scenario that ended by death and one
\* that ended by depletion
C9_Witness ==
    /\ pc = "done"
    /\ entry = "main"
    /\ ScanOf.num_simulations > ScanOf.num_successful
    /\ ScanOf.num_successful > 0
    /\ \E k \in 1..Len(endings) : endings[k] = "death"
    /\ \E k \in 1..Len(endings) : endings[k] = "depletion"

\* C10: when a scan finishes, its ranking holds the index of every scenario
\* exactly once and is ordered worst to best by (months, final balance);
\* the scenario list stays in its original order.
Ranking == IF entry = "historical" THEN hist_results.indices_failed ELSE results.sorted_indices

months_of(scenario) == Len(scenario.simulation_results.monthly_snapshot)

C10_RankingCompleteAndOrdered ==
    (pc = "done") =>
        LET scenarios == ScanOf.scenario_results
            n == Len(scenarios)
        IN  /\ Len(Ranking) = n
            /\ {Ranking[i] : i \in 1..Len(Ranking)} = 0..(n - 1)
            /\ \A i \in 1..(Len(Ranking) - 1) :
                  LET a == scenarios[Ranking[i] + 1]
                      b == scenarios[Ranking[i + 1] + 1]
                  IN  \/ months_of(a) < months_of(b)
                      \/ /\ months_of(a) = months_of(b)
                         /\ last_balance_of(a) <= last_balance_of(b)
            /\ entry = "historical" =>
                  \A k \in 1..n : scenarios[k].starting_year = historical_returns[k].year
            /\ entry = "main" =>
                  \A i \in 1..Len(results.sorting_info) :
                      LET info == results.sorting_info[i]
                      IN  /\ info.num_months = months_of(scenarios[info.index + 1])
                          /\ info.ending_balance = last_balance_of(scenarios[info.index + 1])

\* the schedules the tax claims are about: ascending ceilings, an unbounded
\* last bracket, rates that are not negative
ValidSchedule(tax_rates) ==
    LET levels == tax_rates.tax_levels
    IN  /\ Len(levels) > 0
        /\ \A i \in 1..(Len(levels) - 1) : levels[i].income < levels[i + 1].income
        /\ levels[Len(levels)].income = F32_MAX
        /\ \A i \in 1..Len(levels) : levels[i].rate >= 0

ProgressiveSchedule(tax_rates) ==
    /\ tax_rates.standard_deduction >= 0
    /\ \A i \in 1..(Len(tax_rates.tax_levels) - 1) :
        tax_rates.tax_levels[i].rate <= tax_rates.tax_levels[i + 1].rate

tax_of(monthly_income, tax_rates) ==
    get_taxes(monthly_income, tax_rates.standard_deduction, tax_rates.tax_levels)

\* the tax does not decrease with the income, and the tax is at most the
\* top bracket's rate of the monthly income
MonotoneAndBelowTopRate ==
    LET m == tax_args.monthly_income
        sched == tax_args.tax_rates
        top == sched.tax_levels[Len(sched.tax_levels)].rate
    IN  /\ ~tax_result.panic
        /\ \A lower \in TaxIncomes :
              lower <= m => tax_of(lower, sched).tax <= tax_result.tax
        /\ \A higher \in TaxIncomes :
              higher >= m => tax_of(higher, sched).tax >= tax_result.tax
        /\ tax_result.tax * 100 <= top * m

\* C11 as stated: for every schedule with ascending ceilings, an unbounded
\* last bracket and non-negative rates, and every standard deduction, the
\* tax of get_taxes is non-decreasing in the monthly income and the
\* effective rate never exceeds the top bracket's marginal rate.
C11_TaxMonotoneBelowTopRate ==
    (pc = "tax_done" /\ ValidSchedule(tax_args.tax_rates)) => MonotoneAndBelowTopRate

\* C11, amended: the same for the schedules whose rates do not decrease
\* from one bracket to the next and whose standard deduction is not negative.
C11_TaxMonotoneBelowTopRateAscending ==
    (pc = "tax_done" /\ ValidSchedule(tax_args.tax_rates)
        /\ ProgressiveSchedule(tax_args.tax_rates)) => MonotoneAndBelowTopRate

\* an income taxed in the third of four brackets, above the tax of a lower
\* income
C11_Witness ==
    /\ pc = "tax_done"
    /\ ValidSchedule(tax_args.tax_rates)
    /\ ProgressiveSchedule(tax_args.tax_rates)
    /\ Len(tax_args.tax_rates.tax_levels) = 4
    /\ tax_result.rate = tax_args.tax_rates.tax_levels[3].rate
    /\ tax_result.tax > tax_of(501, tax_args.tax_rates).tax
    /\ tax_of(501, tax_args.tax_rates).tax > 0

\* a scenario of a scan is about to make its first step
ScenarioStarts == pc \in {"mc_sample", "hist_months"} /\ call.n = 0

\* every scenario starts from the engine state Simulation::new makes of the
\* configuration, and every recorded historical scenario is the one
\* run_scenario gives for its starting index alone
ScenariosIndependent ==
    /\ ScenarioStarts =>
          /\ simulation = Simulation_new(input)
          /\ simulation.portfolio_.balance = input.portfolio.balance
          /\ simulation.simulation_results_.monthly_snapshot = <<>>
          /\ simulation.sum_of_returns_ = 0
    /\ (entry = "historical" /\ pc \in {"hist_scan", "done"}) =>
          \A k \in 1..Len(hist_results.scenario_results) :
              hist_results.scenario_results[k]
                  = historical_run_scenario(k - 1, historical_returns, input)

\* C12: scenarios of one scan share no mutable state: every scenario starts
\* from the same initial engine state however many ran before it, no step
\* changes the household configuration or the historical dataset, and a
\* scenario's outcome is that of its own return sequence alone.
C12_ScenariosShareNoState ==
    /\ []ScenariosIndependent
    /\ [][input' = input /\ historical_returns' = historical_returns]_vars

\* a later scenario of a historical scan starts with the configured balance
\* although the scenario before it ended with another one
C12_Witness ==
    /\ entry = "historical"
    /\ ScenarioStarts
    /\ index >= 1
    /\ last_balance_of(hist_results.scenario_results[index]) # input.portfolio.balance
    /\ simulation.portfolio_.balance = input.portfolio.balance
    /\ input.portfolio.balance > 0

\* C13: when the date cannot be advanced by one month, the monthly step
\* returns an error that the driver and the scan propagate; the run is
\* neither reported as finished or depleted nor does it crash.
C13_DateOverflowIsAnError ==
    (call.n > 0 /\ call.date_overflow) =>
        /\ pc # "panicked"
        /\ ~call.ret
        /\ pc \notin {"main_check", "mc_add", "hist_add", "done"}

\* the portfolio configures a standard deviation Normal::new rejects
InvalidDeviation ==
    \/ Normal_new_is_err(input.portfolio.us_equity_expected_returns,
                         input.portfolio.us_equity_standard_deviation)
    \/ Normal_new_is_err(input.portfolio.international_equity_expected_returns,
                         input.portfolio.international_equity_standard_deviation)
    \/ Normal_new_is_err(input.portfolio.bonds_expected_returns,
                         input.portfolio.bonds_standard_deviation)

\* C14: a Monte Carlo scan over a portfolio with an invalid standard
\* deviation reports a setup-time error before any scenario runs: the step
\* the scan takes is the report of the error, without an engine created or
\* stepped and without a scenario added, and the scan does not crash.
C14_InvalidDeviationIsSetupError ==
    [][(entry = "main" /\ pc = "mc_scan" /\ InvalidDeviation) =>
          /\ pc' = "error"
          /\ simulation' = simulation
          /\ results' = results]_vars

\* the last call of run_simulation_one_month ran a month
ActiveCall == Called /\ call.flows.active

\* the snapshot the last call appended
LastSnapshot ==
    simulation.simulation_results_.monthly_snapshot[
        Len(simulation.simulation_results_.monthly_snapshot)]

\* the allocation of the phase the date of the last call is in
PhaseAllocation ==
    IF call.date >= simulation.simulation_results_.retirement_date
    THEN input.portfolio.post_retirement_allocation
    ELSE input.portfolio.pre_retirement_allocation

\* C15: every monthly step grows the portfolio, and reports the blended
\* return, with the post-retirement allocation when the current date is at
\* or after the retirement date and with the pre-retirement allocation
\* before it.
C15_GrowthUsesPhaseAllocation ==
    ActiveCall =>
        LET a == PhaseAllocation
            weighted == a.us_equities * (get_monthly_rate(call.us) + RateScale)
                        + a.international * (get_monthly_rate(call.intl) + RateScale)
                        + a.bonds * (get_monthly_rate(call.bonds) + RateScale)
        IN  /\ LastSnapshot.annualized_return
                  = call.us * a.us_equities + call.intl * a.international
                    + call.bonds * a.bonds
            /\ LastSnapshot.balance
                  = Div(call.flows.after_withdrawals * weighted, 100 * RateScale)

\* the balance the last call found in the portfolio
BalanceBeforeCall ==
    LET snaps == simulation.simulation_results_.monthly_snapshot
    IN  IF Len(snaps) = 1 THEN input.portfolio.balance
        ELSE snaps[Len(snaps) - 1].balance

\* the monthly contribution of retiree i: salary x contribution% / 12
contribution_of(i) ==
    Div(Div(input.retirees[i].salary_annual
            * input.retirees[i].retirement_contribution_percent, 100), 12)

\* retiree i's own retirement date
own_retirement_date(i) ==
    input.retirees[i].date_of_birth + 12 * input.retirees[i].retirement_age

\* C16: in each active month the contribution of a retiree is deposited
\* exactly when the current date is before that retiree's own retirement
\* date, independently of the other retirees.
C16_ContributionsPerRetiree ==
    ActiveCall =>
        call.flows.after_contributions - BalanceBeforeCall
            = SumSeq([i \in 1..Len(input.retirees) |->
                         IF call.date < own_retirement_date(i)
                         THEN contribution_of(i) ELSE 0])

\* C17: in each active month, with B the balance after contributions, I the
\* income, E the monthly expenses, T the grossed-up tax and W the required
\* withdrawal (max(0, E - I) at or after the retirement date, 0 before it),
\* the balance handed to growth is max(0, max(0, B + max(0, I - E) - T) - W),
\* reached by the deposit, then the taxes, then the withdrawal; nothing is
\* withdrawn for expenses before the retirement date.
C17_CashFlowOrder ==
    ActiveCall =>
        LET B == call.flows.after_contributions
            I == call.flows.income
            E == input.expenses.monthly
            T == call.flows.taxes
            W == call.flows.withdrawals
            retired == call.date >= simulation.simulation_results_.retirement_date
        IN  /\ W = IF retired THEN Max(0, E - I) ELSE 0
            /\ call.flows.after_deposit = B + Max(0, I - E)
            /\ call.flows.after_taxes = Max(0, B + Max(0, I - E) - T)
            /\ call.flows.after_withdrawals
                  = Max(0, Max(0, B + Max(0, I - E) - T) - W)
            /\ ~retired => call.flows.after_withdrawals = call.flows.after_taxes
            /\ (call.us = 0 /\ call.intl = 0 /\ call.bonds = 0) =>
                  LastSnapshot.balance = call.flows.after_withdrawals
            /\ LastSnapshot.income = I
            /\ LastSnapshot.taxes = T

\* a month after the retirement date whose taxes and whose withdrawal were
\* both taken in full
C17_Witness ==
    /\ ActiveCall
    /\ call.date >= simulation.simulation_results_.retirement_date
    /\ call.flows.taxes > 0
    /\ call.flows.withdrawals > 0
    /\ call.flows.after_taxes = call.flows.after_deposit - call.flows.taxes
    /\ call.flows.after_withdrawals = call.flows.after_taxes - call.flows.withdrawals
    /\ call.flows.after_withdrawals > 0

\* the snapshots of the engine of the running scenario
Snapshots == simulation.simulation_results_.monthly_snapshot

\* a scenario is being stepped
Stepping == pc \in {"uniform_loop", "mc_months", "hist_months"}

\* k snapshots after k active steps, dated with consecutive months from the
\* scenario's start date on, the current date the month after the last
SnapshotPerMonth ==
    (call.n > 0 /\ pc # "panicked") =>
        /\ Len(Snapshots) = IF call.flows.active THEN call.n ELSE call.n - 1
        /\ \A k \in 1..Len(Snapshots) :
              Snapshots[k].date = Simulation_new(input).current_date_ + (k - 1)
        /\ simulation.current_date_
              = Simulation_new(input).current_date_ + Len(Snapshots)

\* a step that does not find everyone dead appends one snapshot, dated with
\* the date it found, and advances the date by one month; a step that finds
\* everyone dead changes nothing; no step touches an earlier snapshot
StepAppendsOne ==
    (Stepping /\ call'.n = call.n + 1 /\ pc' # "panicked") =>
        IF call'.flows.active
        THEN /\ Len(Snapshots') = Len(Snapshots) + 1
             /\ SubSeq(Snapshots', 1, Len(Snapshots)) = Snapshots
             /\ Snapshots'[Len(Snapshots')].date = simulation.current_date_
             /\ simulation'.current_date_ = simulation.current_date_ + 1
        ELSE simulation' = simulation

\* C18: the snapshot history is append-only with one entry per simulated
\* month: every step that does not find everyone dead appends exactly one
\* snapshot dated with the step's current date and then advances the date by
\* one month, no step changes or removes an earlier snapshot, and after k
\* active steps there are k snapshots of consecutive months from the start
\* date on.
C18_SnapshotsAppendOnly ==
    /\ []SnapshotPerMonth
    /\ [][StepAppendsOne]_vars

\* a step past the first year appended the 14th snapshot
C18_Witness ==
    /\ call.n = 14
    /\ pc # "panicked"
    /\ call.flows.active
    /\ Len(Snapshots) = 14
    /\ Snapshots[14].date = Snapshots[1].date + 13
    /\ Snapshots[14].balance # Snapshots[13].balance

\* the monthly part of the annual ceiling of bracket k (0 below the first)
monthly_ceiling(levels, k) == IF k = 0 THEN 0 ELSE Div(levels[k].income, 12)

\* the bracket whose range (c_(k-1), c_k] holds the annualized income
bracket_of(levels, taxable) ==
    CHOOSE k \in 1..Len(levels) :
        /\ taxable * 12 <= levels[k].income
        /\ \A j \in 1..(k - 1) : taxable * 12 > levels[j].income

\* the progressive tax: every bracket below the income's taxed at its rate
\* on its span, the income's own bracket on the rest
progressive_tax(levels, taxable) ==
    LET k == bracket_of(levels, taxable)
    IN  SumSeq([j \in 1..(k - 1) |->
                   Div((monthly_ceiling(levels, j) - monthly_ceiling(levels, j - 1))
                       * levels[j].rate, 100)])
        + Div((taxable - monthly_ceiling(levels, k - 1)) * levels[k].rate, 100)

\* C19: get_taxes is a progressive bracket tax: after one-twelfth of the
\* standard deduction is subtracted (floored at zero), the part of the income
\* between two consecutive ceilings is taxed at the upper bracket's rate,
\* the marginal rate returned is that of the bracket whose range holds the
\* annualized income, and an income at or below the deduction is not taxed.
C19_ProgressiveBracketTax ==
    (pc = "tax_done" /\ ValidSchedule(tax_args.tax_rates)) =>
        LET levels == tax_args.tax_rates.tax_levels
            deduction == Div(tax_args.tax_rates.standard_deduction, 12)
            taxable == Max(0, tax_args.monthly_income - deduction)
        IN  /\ ~tax_result.panic
            /\ tax_result.rate = levels[bracket_of(levels, taxable)].rate
            /\ tax_result.tax = progressive_tax(levels, taxable)
            /\ tax_args.monthly_income <= deduction => tax_result.tax = 0

\* C20: the terminated state is absorbing: once a call has reported
\* 'finished', for either cause, every later call on the same engine reports
\* 'finished' and changes nothing: no snapshot is appended and the date, the
\* balance and the running average stay as they are.
C20_TerminatedIsAbsorbing ==
    [][(entry = "engine" /\ pc = "engine" /\ Len(endings) > 0) =>
          /\ pc' = "engine"
          /\ call'.ret
          /\ simulation' = simulation]_vars

\* C21: every scenario that ran to its end has at least one
\* MonthlySnapshot, for every household (one whose retirees are all past
\* their life expectancy at the start included), so the last snapshot's
\* balance that add_scenario_to_results, run_historical_scan and main read
\* is always there and none of them panics reading it.
C21_FinishedScenarioHasSnapshot ==
    /\ (call.n > 0 /\ call.ret /\ pc \in {"main_check", "mc_add", "hist_add"}) =>
          Len(simulation.simulation_results_.monthly_snapshot) >= 1
    /\ (pc = "panicked" /\ call.n > 0) => ~call.ret

\* the largest life expectancy and the youngest age, in whole years, of the
\* household at the start date
LargestLifeExpectancy ==
    CHOOSE l \in {input.retirees[i].life_expectency : i \in 1..Len(input.retirees)} :
        \A i \in 1..Len(input.retirees) : input.retirees[i].life_expectency <= l

AgeAtStart(i) == IF Today < input.retirees[i].date_of_birth THEN 0
                 ELSE (Today - input.retirees[i].date_of_birth) \div 12

YoungestAge ==
    CHOOSE a \in {AgeAtStart(i) : i \in 1..Len(input.retirees)} :
        \A i \in 1..Len(input.retirees) : a <= AgeAtStart(i)

\* 12 x (largest life expectancy + 1 - youngest current age) + 12
StepBound == 12 * (LargestLifeExpectancy + 1 - YoungestAge) + 12

Running == Stepping \/ pc = "mc_sample"

last_applied_record(i, M, N) == (i + ((M - 1) \div 12)) % N

\* C23: a historical scenario started at index i reports the year of record
\* i as its starting year and, as its ending year, the year of the record
\* whose returns were applied to its last snapshot, whatever the number of
\* snapshots and whichever way it ended.
C23_EndingYearIsLastAppliedYear ==
    (entry = "historical") =>
        \A k \in 1..Len(hist_results.scenario_results) :
            LET scenario == hist_results.scenario_results[k]
                N == Len(historical_returns)
            IN  /\ scenario.starting_year = historical_returns[k].year
                /\ scenario.ending_year =
                      historical_returns[
                          last_applied_record(k - 1, months_of(scenario), N) + 1].year

\* the claim's formula holds of the scenarios that ended by depletion, and of
\* those that ended by death with a number of snapshots that is no multiple
\* of twelve
C23_EndingYearOffTheYearBoundary ==
    (entry = "historical") =>
        \A k \in 1..Len(hist_results.scenario_results) :
            LET scenario == hist_results.scenario_results[k]
                N == Len(historical_returns)
                M == months_of(scenario)
            IN  (endings[k] = "depletion" \/ M % 12 # 0) =>
                    scenario.ending_year =
                        historical_returns[last_applied_record(k - 1, M, N) + 1].year

\* a recorded scenario of a historical scan that ended by depletion
C23_OffTheYearBoundaryReached ==
    /\ entry = "historical"
    /\ \E k \in 1..Len(hist_results.scenario_results) :
          endings[k] = "depletion"

=============================================================================
